---- MODULE Spec2Model ----
(***************************************************************************)
(* A model of the string-extraction core of flare-floss:                   *)
(*   - the Rust blob-mode boundary refiner (floss/language/rust/extract.py)*)
(*   - the quantumstrand pipeline (floss/qs/main.py): direct extraction,   *)
(*     layout construction, tag suppression, display policy, hide filter.  *)
(* Each component is a specification of its own (SpecSplit, ...): its Init *)
(* draws the component's inputs, its actions apply the code to them, and   *)
(* the variables of the other components stay at their idle values.        *)
(***************************************************************************)
EXTENDS Integers, Sequences, FiniteSets, TLC

VARIABLES
    static_strings,   \* extract.py: the list split_strings mutates
    min_length,       \* extract.py: the min_length argument
    address,          \* the address of the last split_strings call, -1 before any
    prev_strings,     \* static_strings as it was before the last call
    tagged_strings,   \* main.py: main's list of TaggedString
    tagged_before,    \* tagged_strings as it was before the last pass over it
    tagged_corpus,    \* tagged_strings as the tagging loop left it
    cursor,           \* main.py: strings the tagging loop has been through
    pc,               \* main.py: the pass main runs next
    tag_order,        \* the tags of the string being tagged, in insertion order
    pe,               \* main.py: the parsed image handed to compute_pe_layout
    pe_offset,        \* main.py: the base offset handed to compute_pe_layout
    layout,           \* main.py: what compute_pe_layout came to
    buf,              \* main.py: the bytes of the file, one integer per byte
    extract_n,        \* main.py: the argument n of the two extractors
    strings,          \* main.py: main's sorted list of ExtractedString
    rust_pe,          \* extract.py: the image handed to get_string_blob_strings
    rust_strings,     \* extract.py: what the extraction came to
    tag_sources,      \* main.py: what the tagging loop consults
    b2s_fix           \* extract.py: the locals of fix_b2s_wide_strings

splitVars == <<static_strings, min_length, address, prev_strings>>
mainVars == <<tagged_strings, tagged_before, tagged_corpus, cursor, pc, tag_order>>

layoutVars == <<pe, pe_offset, layout>>
extractVars == <<buf, extract_n, strings>>
blobVars == <<rust_pe, rust_strings>>
tagVars == <<tag_sources>>
fixVars == <<b2s_fix>>

vars == <<static_strings, min_length, address, prev_strings,
          tagged_strings, tagged_before, tagged_corpus, cursor, pc, tag_order,
          pe, pe_offset, layout,
          buf, extract_n, strings,
          rust_pe, rust_strings,
          tag_sources,
          b2s_fix>>

\* the values of a component's variables while another component runs
SplitIdle ==
    /\ static_strings = <<>>
    /\ min_length = 0
    /\ address = -1
    /\ prev_strings = <<>>

LayoutIdle ==
    /\ pe = <<>>
    /\ pe_offset = 0
    /\ layout = <<>>

ExtractIdle ==
    /\ buf = <<>>
    /\ extract_n = 0
    /\ strings = <<>>

BlobIdle ==
    /\ rust_pe = <<>>
    /\ rust_strings = <<>>

TagIdle == tag_sources = <<>>

FixIdle == b2s_fix = <<>>

MainIdle ==
    /\ tagged_strings = <<>>
    /\ tagged_before = <<>>
    /\ tagged_corpus = <<>>
    /\ cursor = 0
    /\ pc = "idle"
    /\ tag_order = <<>>

(***************************************************************************)
(* Generic helpers on sequences.                                           *)
(***************************************************************************)
SeqRange(s) == {s[i] : i \in 1..Len(s)}

\* s without its element at index i
RemoveAt(s, i) == [k \in 1..(Len(s) - 1) |-> IF k < i THEN s[k] ELSE s[k + 1]]

(***************************************************************************)
(* Boundary refiner: floss/language/rust/extract.py                        *)
(***************************************************************************)
\* bounds of the refiner's inputs
MaxOff == 6        \* file offsets of the data section are 0..MaxOff
MaxStrings == 2    \* candidates in the initial list
MaxMinLen == 3     \* min_length is drawn from 1..MaxMinLen

\* The character the data section holds at file offset p. Every offset holds
\* a different character, so a text identifies the bytes it was cut from.
CharAt(p) == p

\* StaticString(string, offset): the text decoded from [offset, offset+len)
StaticString(str, off) == [string |-> str, offset |-> off]

TextAt(off, len) == [k \in 1..len |-> CharAt(off + k - 1)]

StrEnd(s) == s.offset + Len(s.string)

\* string.string[0 : n] and string.string[n :]
SlicePrefix(str, n) == SubSeq(str, 1, n)

\* a slip: the rest starts one character late
SliceRest_late(str, n) == SubSeq(str, n + 2, Len(str))

SliceRest(str, n) == SubSeq(str, n + 1, Len(str))

\* a slip: the start offset counts as inside
StrictlyContains_closed(s, a) == s.offset <= a /\ a < s.offset + Len(s.string)

\* line 91: the address is strictly between start and end of the string
StrictlyContains(s, a) == s.offset < a /\ a < s.offset + Len(s.string)

\* a slip: the last string that matches is taken
FirstMatch_last(ss, a) ==
    IF \E i \in 1..Len(ss) : StrictlyContains(ss[i], a)
    THEN CHOOSE i \in 1..Len(ss) :
            /\ StrictlyContains(ss[i], a)
            /\ \A j \in (i + 1)..Len(ss) : ~StrictlyContains(ss[j], a)
    ELSE 0

\* line 90-91: index of the first string in list order that the address is
\* strictly inside, 0 when there is none
FirstMatch(ss, a) ==
    IF \E i \in 1..Len(ss) : StrictlyContains(ss[i], a)
    THEN CHOOSE i \in 1..Len(ss) :
            /\ StrictlyContains(ss[i], a)
            /\ \A j \in 1..(i - 1) : ~StrictlyContains(ss[j], a)
    ELSE 0

\* list.remove(x): drops the first element equal to x
ListRemove(ss, x) ==
    IF \E i \in 1..Len(ss) : ss[i] = x
    THEN RemoveAt(ss, CHOOSE i \in 1..Len(ss) :
                        ss[i] = x /\ \A j \in 1..(i - 1) : ss[j] # x)
    ELSE ss

\* a slip: the rest is kept whatever its length
KeptFragments_rest(string, a, minlen) ==
    LET rust_string == SlicePrefix(string.string, a - string.offset)
        rest == SliceRest(string.string, a - string.offset)
    IN  (IF Len(rust_string) >= minlen
         THEN <<StaticString(rust_string, string.offset)>> ELSE <<>>)
        \o <<StaticString(rest, a)>>

\* a slip: a fragment of exactly min_length is dropped
KeptFragments_gt(string, a, minlen) ==
    LET rust_string == SlicePrefix(string.string, a - string.offset)
        rest == SliceRest(string.string, a - string.offset)
    IN  (IF Len(rust_string) > minlen
         THEN <<StaticString(rust_string, string.offset)>> ELSE <<>>)
        \o
        (IF Len(rest) > minlen
         THEN <<StaticString(rest, a)>> ELSE <<>>)

\* lines 95-100: the fragments that meet min_length, appended in this order
KeptFragments(string, a, minlen) ==
    LET rust_string == SlicePrefix(string.string, a - string.offset)
        rest == SliceRest(string.string, a - string.offset)
    IN  (IF Len(rust_string) >= minlen
         THEN <<StaticString(rust_string, string.offset)>> ELSE <<>>)
        \o
        (IF Len(rest) >= minlen
         THEN <<StaticString(rest, a)>> ELSE <<>>)

\* split_strings(static_strings, address, min_length): the list afterwards
split_strings(ss, a, minlen) ==
    LET i == FirstMatch(ss, a)
    IN  IF i = 0 THEN ss
        ELSE ListRemove(ss \o KeptFragments(ss[i], a, minlen), ss[i])

\* Candidate lists as the scanner and filter_and_transform_utf8_strings hand
\* them over: in scan order, over pairwise disjoint byte runs.
Candidates ==
    {StaticString(TextAt(o, l), o) : o \in 0..(MaxOff - 1), l \in 1..MaxOff}

ScannerLists ==
    {ss \in UNION {[1..n -> Candidates] : n \in 0..MaxStrings} :
        /\ \A i \in 1..Len(ss) : StrEnd(ss[i]) <= MaxOff
        /\ \A i \in 1..(Len(ss) - 1) : StrEnd(ss[i]) <= ss[i + 1].offset}

Addresses == 0..MaxOff

InitSplit ==
    /\ static_strings \in ScannerLists
    /\ min_length \in 1..MaxMinLen
    /\ address = -1
    /\ prev_strings = static_strings
    /\ MainIdle
    /\ LayoutIdle
    /\ ExtractIdle
    /\ BlobIdle
    /\ TagIdle
    /\ FixIdle

\* one iteration of the loop of get_string_blob_strings that reaches line 170
SplitStrings ==
    \E a \in Addresses :
        /\ static_strings' = split_strings(static_strings, a, min_length)
        /\ prev_strings' = static_strings
        /\ address' = a
        /\ UNCHANGED min_length
        /\ UNCHANGED mainVars
        /\ UNCHANGED layoutVars
        /\ UNCHANGED extractVars
        /\ UNCHANGED blobVars
        /\ UNCHANGED tagVars
        /\ UNCHANGED fixVars

NextSplit == SplitStrings

SpecSplit == InitSplit /\ [][NextSplit]_vars

(***************************************************************************)
(* Claims about split_strings (checked under SpecSplit).                   *)
(***************************************************************************)
Called == address # -1

\* the candidates of the list before the call that the address is strictly inside
Hit == {i \in 1..Len(prev_strings) :
            /\ prev_strings[i].offset < address
            /\ address < prev_strings[i].offset + Len(prev_strings[i].string)}

\* the two pieces of candidate c cut at the address, written out directly
PrefixOf(c) ==
    [string |-> [k \in 1..(address - c.offset) |-> c.string[k]],
     offset |-> c.offset]
SuffixOf(c) ==
    [string |-> [k \in 1..(c.offset + Len(c.string) - address) |->
                    c.string[address - c.offset + k]],
     offset |-> address]

\* the elements of the list before the call other than index i, in order
Others(i) ==
    [k \in 1..(Len(prev_strings) - 1) |->
        IF k < i THEN prev_strings[k] ELSE prev_strings[k + 1]]

\* C1: when the address is strictly inside a candidate (offset s, length L)
\* and both pieces have at least min_length characters, the call replaces
\* that candidate by exactly two strings, the prefix (offset s, the first
\* a-s characters) and the suffix (offset a, the other s+L-a characters);
\* their texts concatenate to the original text and every other element of
\* the list is unchanged.
C1_SplitExact ==
    Called =>
      \A i \in Hit :
        LET c == prev_strings[i]
            P == PrefixOf(c)
            S == SuffixOf(c)
        IN  (Len(P.string) >= min_length /\ Len(S.string) >= min_length) =>
              /\ Len(static_strings) = Len(prev_strings) + 1
              /\ SubSeq(static_strings, 1, Len(prev_strings) - 1) = Others(i)
              /\ {static_strings[Len(prev_strings)],
                  static_strings[Len(prev_strings) + 1]} = {P, S}
              /\ P # S
              /\ Len(P.string) = address - c.offset
              /\ Len(S.string) = c.offset + Len(c.string) - address
              /\ P.string \o S.string = c.string
              /\ c \notin SeqRange(static_strings)

C1_Witness ==
    /\ Called
    /\ \E i \in Hit :
          /\ address - prev_strings[i].offset >= min_length
          /\ StrEnd(prev_strings[i]) - address >= min_length
          /\ Len(prev_strings) = 2
          /\ min_length >= 2
    /\ Len(static_strings) = 3

\* C2: when a candidate is split, each of the two pieces is kept if and only
\* if its length is at least min_length: one short piece leaves only the
\* other, two short pieces remove the candidate and put nothing in its place.
C2_KeepIffMinLength ==
    Called =>
      \A i \in Hit :
        LET c == prev_strings[i]
            P == PrefixOf(c)
            S == SuffixOf(c)
            keepP == Len(P.string) >= min_length
            keepS == Len(S.string) >= min_length
            kept == (IF keepP THEN 1 ELSE 0) + (IF keepS THEN 1 ELSE 0)
        IN  /\ (P \in SeqRange(static_strings)) <=> keepP
            /\ (S \in SeqRange(static_strings)) <=> keepS
            /\ c \notin SeqRange(static_strings)
            /\ Len(static_strings) = Len(prev_strings) - 1 + kept
            /\ SubSeq(static_strings, 1, Len(prev_strings) - 1) = Others(i)

\* both pieces are short: the candidate disappears
C2_Witness ==
    /\ Called
    /\ \E i \in Hit :
          /\ address - prev_strings[i].offset < min_length
          /\ StrEnd(prev_strings[i]) - address < min_length
    /\ Len(static_strings) = Len(prev_strings) - 1

\* C3: an address that is strictly inside no candidate leaves the list
\* unchanged; in particular an address equal to the start offset or to the
\* end offset of a candidate does not split it.
C3_BoundaryNoSplit ==
    (Called /\ Hit = {}) => static_strings = prev_strings

\* the address is the end of one candidate and the start of the next
C3_Witness ==
    /\ Called
    /\ Hit = {}
    /\ \E i, j \in 1..Len(prev_strings) :
          /\ address = prev_strings[i].offset
          /\ address = StrEnd(prev_strings[j])
          /\ Len(prev_strings[i].string) >= 2
          /\ Len(prev_strings[j].string) >= 2
    /\ static_strings = prev_strings

(***************************************************************************)
(* Tagging pipeline of main: floss/qs/main.py                              *)
(***************************************************************************)
\* bound of the pipeline's input
MaxCorpus == 5     \* strings in the analysed sample

\* line 765: a library tag on fewer strings than this is dropped
SuppressThreshold == 5

\* lines 680-698: the open-source databases (two of the seventeen: one whose
\* tag has a rule in tag_rules, one whose tag has none), in tuple order
oss_database_filenames == <<"curl.jsonl.gz", "zlib.jsonl.gz">>

\* line 757: filename.partition(".")[0]
Partition0(filename) ==
    CASE filename = "curl.jsonl.gz" -> "curl"
      [] filename = "zlib.jsonl.gz" -> "zlib"

\* lines 700-704: the databases query_library_string_databases goes through:
\* the open-source ones and then the runtime database crt/msvc_v143
library_databases == oss_database_filenames \o <<"msvc_v143.jsonl.gz">>

\* meta.library_name of the records of a database: for the open-source ones
\* the stem of the file name (the assumption the comment at lines 754-755
\* states), for the runtime database the name of the runtime
LibraryName(db) ==
    CASE db = "curl.jsonl.gz" -> "curl"
      [] db = "zlib.jsonl.gz" -> "zlib"
      [] db = "msvc_v143.jsonl.gz" -> "msvc"

\* line 339: the tag a database gives a string it knows
LibraryTag(db) == "#" \o LibraryName(db)

LibraryTags == {LibraryTag(library_databases[i]) : i \in 1..Len(library_databases)}

\* lines 776-786
tag_rules ==
    ("#code" :> "hide") @@ ("#reloc" :> "hide") @@ ("#common" :> "mute") @@
    ("#zlib" :> "mute") @@ ("#bzip2" :> "mute") @@ ("#sqlite3" :> "mute") @@
    ("#winapi" :> "mute") @@ ("#wolfssl" :> "mute") @@ ("#capa" :> "highlight")

\* tag_rules.get(tag): None for a tag without a rule
RuleGet(tag) == IF tag \in DOMAIN tag_rules THEN tag_rules[tag] ELSE "None"

\* a slip: no default, a tag without a rule has no action
RuleGetMute_nodefault(tag) == RuleGet(tag)

\* tag_rules.get(tag, "mute")
RuleGetMute(tag) == IF tag \in DOMAIN tag_rules THEN tag_rules[tag] ELSE "mute"

TaggedString(id, tags) == [id |-> id, tags |-> tags]

\* a slip: a highlight tag saves the string from being hidden
should_hide_string_by_style(s) ==
    /\ \E tag \in s.tags : RuleGet(tag) = "hide"
    /\ ~\E tag \in s.tags : RuleGet(tag) = "highlight"

\* lines 147-148
should_hide_string(s) == \E tag \in s.tags : RuleGet(tag) = "hide"

\* a slip: hide is tested before highlight
compute_string_style_hide_first(s) ==
    LET styles == {RuleGetMute(tag) : tag \in s.tags}
    IN  IF "hide" \in styles THEN "None"
        ELSE IF "highlight" \in styles THEN "HIGHLIGHT_STYLE"
        ELSE IF "mute" \in styles THEN "MUTED_STYLE"
        ELSE "DEFAULT_STYLE"

\* lines 151-171: the style, "None" when the string should be hidden
compute_string_style(s) ==
    LET styles == {RuleGetMute(tag) : tag \in s.tags}
    IN  IF "highlight" \in styles THEN "HIGHLIGHT_STYLE"
        ELSE IF "hide" \in styles THEN "None"
        ELSE IF "mute" \in styles THEN "MUTED_STYLE"
        ELSE "DEFAULT_STYLE"

\* lines 760-763
CountTag(ts, tagname) == Cardinality({i \in 1..Len(ts) : tagname \in ts[i].tags})

\* a slip: the threshold is inclusive
SuppressTag_le(ts, tagname) ==
    LET count == CountTag(ts, tagname)
    IN  IF 0 < count /\ count <= SuppressThreshold
        THEN [i \in 1..Len(ts) |-> TaggedString(ts[i].id, ts[i].tags \ {tagname})]
        ELSE ts

\* lines 760-774: one iteration of the loop over oss_database_filenames
SuppressTag(ts, tagname) ==
    LET count == CountTag(ts, tagname)
    IN  IF 0 < count /\ count < SuppressThreshold
        THEN [i \in 1..Len(ts) |-> TaggedString(ts[i].id, ts[i].tags \ {tagname})]
        ELSE ts

\* lines 756-774: the loop, over the first n file names
RECURSIVE SuppressUpTo(_, _)
SuppressUpTo(ts, n) ==
    IF n = 0 THEN ts
    ELSE SuppressTag(SuppressUpTo(ts, n - 1),
                     "#" \o Partition0(oss_database_filenames[n]))

Suppress(ts) == SuppressUpTo(ts, Len(oss_database_filenames))

\* line 788
HideFilter(ts) == SelectSeq(ts, LAMBDA s : ~should_hide_string(s))

\* The tag sets the sources of lines 729-737 hand a string in this model: a
\* suppressed library tag, the runtime library's tag, a hide tag and a
\* highlight tag, in every combination.
PipelineTags == <<"#zlib", "#msvc", "#code", "#capa">>

RECURSIVE WeightUpTo(_, _)
WeightUpTo(tags, n) ==
    IF n = 0 THEN 0
    ELSE WeightUpTo(tags, n - 1) * 2 + (IF PipelineTags[n] \in tags THEN 1 ELSE 0)

\* a total order on tag sets
Weight(tags) == WeightUpTo(tags, Len(PipelineTags))

\* line 706
InitMain ==
    /\ \E n \in 0..MaxCorpus :
          tagged_strings = [i \in 1..n |-> TaggedString(i, {})]
    /\ tagged_before = tagged_strings
    /\ tagged_corpus = <<>>
    /\ cursor = 0
    /\ pc = "tag"
    /\ tag_order = <<>>
    /\ SplitIdle
    /\ LayoutIdle
    /\ ExtractIdle
    /\ BlobIdle
    /\ TagIdle
    /\ FixIdle

\* lines 726-737: one iteration of the tagging loop: the tags of the sources
\* are added to the string's set. The passes below treat all strings alike,
\* so the samples are enumerated up to the order of their strings: a string
\* gets a tag set that does not come before its predecessor's.
TagString ==
    /\ pc = "tag"
    /\ cursor < Len(tagged_strings)
    /\ \E tags \in SUBSET SeqRange(PipelineTags) :
          /\ cursor > 0 => Weight(tagged_strings[cursor].tags) <= Weight(tags)
          /\ tagged_strings' =
                [tagged_strings EXCEPT ![cursor + 1].tags = @ \cup tags]
    /\ cursor' = cursor + 1
    /\ UNCHANGED <<tagged_before, tagged_corpus, pc, tag_order>>
    /\ UNCHANGED splitVars
    /\ UNCHANGED layoutVars
    /\ UNCHANGED extractVars
    /\ UNCHANGED blobVars
    /\ UNCHANGED tagVars
    /\ UNCHANGED fixVars

\* the loop of lines 726-749 ends
TaggingDone ==
    /\ pc = "tag"
    /\ cursor = Len(tagged_strings)
    /\ pc' = "suppress"
    /\ tagged_corpus' = tagged_strings
    /\ UNCHANGED <<tagged_strings, tagged_before, cursor, tag_order>>
    /\ UNCHANGED splitVars
    /\ UNCHANGED layoutVars
    /\ UNCHANGED extractVars
    /\ UNCHANGED blobVars
    /\ UNCHANGED tagVars
    /\ UNCHANGED fixVars

\* lines 756-774
SuppressLowSupport ==
    /\ pc = "suppress"
    /\ tagged_before' = tagged_strings
    /\ tagged_strings' = Suppress(tagged_strings)
    /\ pc' = "hide"
    /\ UNCHANGED <<cursor, tagged_corpus, tag_order>>
    /\ UNCHANGED splitVars
    /\ UNCHANGED layoutVars
    /\ UNCHANGED extractVars
    /\ UNCHANGED blobVars
    /\ UNCHANGED tagVars
    /\ UNCHANGED fixVars

\* line 788
HideStrings ==
    /\ pc = "hide"
    /\ tagged_before' = tagged_strings
    /\ tagged_strings' = HideFilter(tagged_strings)
    /\ pc' = "render"
    /\ UNCHANGED <<cursor, tagged_corpus, tag_order>>
    /\ UNCHANGED splitVars
    /\ UNCHANGED layoutVars
    /\ UNCHANGED extractVars
    /\ UNCHANGED blobVars
    /\ UNCHANGED tagVars
    /\ UNCHANGED fixVars

NextMain == TagString \/ TaggingDone \/ SuppressLowSupport \/ HideStrings

SpecMain == InitMain /\ [][NextMain]_vars

(***************************************************************************)
(* Display policy of one string: the tags reach its set one by one.        *)
(***************************************************************************)
MaxTags == 3       \* tags one string receives

\* the tags the sources of lines 729-737 can return: #code, #reloc, #common,
\* the library tags, the expert tag and #winapi
AllTags == DOMAIN tag_rules \cup LibraryTags

InitStyle ==
    /\ tagged_strings = <<TaggedString(1, {})>>
    /\ tagged_before = tagged_strings
    /\ tagged_corpus = <<>>
    /\ cursor = 0
    /\ pc = "tag"
    /\ tag_order = <<>>
    /\ SplitIdle
    /\ LayoutIdle
    /\ ExtractIdle
    /\ BlobIdle
    /\ TagIdle
    /\ FixIdle

\* string.tags.update(...) of lines 729-737, a tag at a time and in any order
UpdateTags ==
    /\ pc = "tag"
    /\ Len(tag_order) < MaxTags
    /\ \E tag \in AllTags \ tagged_strings[1].tags :
          /\ tagged_strings' =
                [tagged_strings EXCEPT ![1].tags = @ \cup {tag}]
          /\ tag_order' = Append(tag_order, tag)
    /\ UNCHANGED <<tagged_before, tagged_corpus, cursor, pc>>
    /\ UNCHANGED splitVars
    /\ UNCHANGED layoutVars
    /\ UNCHANGED extractVars
    /\ UNCHANGED blobVars
    /\ UNCHANGED tagVars
    /\ UNCHANGED fixVars

NextStyle == UpdateTags

SpecStyle == InitStyle /\ [][NextStyle]_vars

(***************************************************************************)
(* Claims about the suppression pass and the hide filter (SpecMain).       *)
(***************************************************************************)
\* how many strings of a list carry a tag, counted directly
Carriers(ts, tag) == {i \in 1..Len(ts) : tag \in ts[i].tags}

\* the strings of a list by id
Ids(ts) == {ts[i].id : i \in 1..Len(ts)}

\* C4: after the suppression pass a library-fingerprint tag carried by 1, 2,
\* 3 or 4 strings is on no string, one carried by 5 or more strings is still
\* on each of them, so each library tag is on no string or on at least 5.
C4_LowSupportSuppressed ==
    pc = "hide" =>
      \A tag \in LibraryTags :
        LET n == Cardinality(Carriers(tagged_before, tag))
        IN  /\ (1 <= n /\ n <= 4) => Carriers(tagged_strings, tag) = {}
            /\ n >= 5 => Carriers(tagged_strings, tag) = Carriers(tagged_before, tag)
            /\ Cardinality(Carriers(tagged_strings, tag)) \notin 1..4

\* the same for the tags of the open-source databases alone, which holds
C4_OssTagsSuppressed ==
    pc = "hide" =>
      \A k \in 1..Len(oss_database_filenames) :
        LET tag == LibraryTag(oss_database_filenames[k])
            n == Cardinality(Carriers(tagged_before, tag))
        IN  /\ (1 <= n /\ n <= 4) => Carriers(tagged_strings, tag) = {}
            /\ n >= 5 => Carriers(tagged_strings, tag) = Carriers(tagged_before, tag)
            /\ Cardinality(Carriers(tagged_strings, tag)) \notin 1..4

\* the disposition of a tag set under highlight > hide > mute > default,
\* written from the rule table directly
HasRule(tags, action) == \E tag \in tags : tag \in DOMAIN tag_rules /\ tag_rules[tag] = action

\* C5: a string with a highlight-mapped tag resolves to highlight whatever
\* its other tags are, one with a hide-mapped tag and no highlight-mapped tag
\* resolves to hide; the result is the same for every insertion order of the
\* same tags (it is determined by the set).
C5_HighlightOverHide ==
    \A i \in 1..Len(tagged_strings) :
      LET tags == tagged_strings[i].tags
          style == compute_string_style(tagged_strings[i])
      IN  /\ HasRule(tags, "highlight") => style = "HIGHLIGHT_STYLE"
          /\ (~HasRule(tags, "highlight") /\ HasRule(tags, "hide")) => style = "None"
          /\ style = "HIGHLIGHT_STYLE" => HasRule(tags, "highlight")
          /\ style = "None" => HasRule(tags, "hide")

\* the hide tag was inserted first, the highlight tag after it
C5_Witness ==
    /\ Len(tag_order) = 3
    /\ tag_order[1] = "#code"
    /\ tag_order[3] = "#capa"
    /\ tagged_strings[1].tags = {"#code", "#capa", tag_order[2]}
    /\ compute_string_style(tagged_strings[1]) = "HIGHLIGHT_STYLE"

\* C6: the hide filter removes a string if and only if its disposition under
\* highlight > hide > mute > default is hide; a string with a highlight tag
\* and a hide tag is emitted.
C6_HiddenIffDispositionHide ==
    pc = "render" =>
      \A i \in 1..Len(tagged_before) :
        (tagged_before[i].id \notin Ids(tagged_strings))
          <=> (HasRule(tagged_before[i].tags, "hide")
                /\ ~HasRule(tagged_before[i].tags, "highlight"))

\* what the filter does: every string with a hide-mapped tag is removed
C6_HiddenIffAnyHideTag ==
    pc = "render" =>
      \A i \in 1..Len(tagged_before) :
        (tagged_before[i].id \notin Ids(tagged_strings))
          <=> HasRule(tagged_before[i].tags, "hide")

\* C7: suppression then hide filter gives the same strings with the same tags
\* as hide filter then suppression.
C7_PassesCommute ==
    pc = "render" => tagged_strings = Suppress(HideFilter(tagged_corpus))

\* the strings of the tagged sample that carry no hide-mapped tag
Shown(ts) == {i \in 1..Len(ts) : ~HasRule(ts[i].tags, "hide")}

\* a tag that at least 5 strings carry, of which 1 to 4 carry no hide tag
HideCrossesThreshold(ts, tag) ==
    /\ Cardinality(Carriers(ts, tag)) >= 5
    /\ Cardinality(Carriers(ts, tag) \cap Shown(ts)) \in 1..4

\* C7 as amended: the two orders agree exactly when the hide filter takes no
\* open-source library tag from 5 or more carriers down to 1 to 4 carriers.
C7_CommuteUnlessCrossing ==
    pc = "render" =>
      ((tagged_strings = Suppress(HideFilter(tagged_corpus)))
        <=> ~\E k \in 1..Len(oss_database_filenames) :
               HideCrossesThreshold(tagged_corpus,
                                    LibraryTag(oss_database_filenames[k])))

\* both passes changed the sample, a hidden string carried a library tag,
\* and the other order gives the same result
C7_Witness ==
    /\ pc = "render"
    /\ tagged_strings = Suppress(HideFilter(tagged_corpus))
    /\ tagged_before # tagged_corpus
    /\ Len(tagged_strings) < Len(tagged_before)
    /\ \E i \in 1..Len(tagged_corpus) :
          /\ "#code" \in tagged_corpus[i].tags
          /\ "#zlib" \in tagged_corpus[i].tags

(***************************************************************************)
(* Layout builder: compute_pe_layout, floss/qs/main.py                     *)
(***************************************************************************)
\* bounds of the builder's inputs
MaxLen == 5        \* len(pe.__data__) is drawn from 1..MaxLen
MaxSections == 2   \* entries of the section table
MaxBase == 1       \* pe_offset is drawn from 0..MaxBase

\* lines 53-60
Range(offset, length) == [offset |-> offset, length |-> length]
RangeEnd(r) == r.offset + r.length

\* lines 358-370 (the parent reference is left out: nothing here reads it)
Layout(range, name, children) ==
    [range |-> range, name |-> name, children |-> children]

\* list.insert keeping a list sorted by key: x goes after the elements whose
\* key is not greater (sorted() and list.sort() are stable)
InsertByOffset(sorted, x) ==
    LET k == Cardinality({i \in 1..Len(sorted) :
                            sorted[i].range.offset <= x.range.offset})
    IN  SubSeq(sorted, 1, k) \o <<x>> \o SubSeq(sorted, k + 1, Len(sorted))

\* a slip: the children are left in append order
SortByOffset_none(s) == s

\* lines 479, 517, 530: sort(key=lambda s: s.range.offset)
RECURSIVE SortByOffset(_)
SortByOffset(s) ==
    IF s = <<>> THEN <<>>
    ELSE InsertByOffset(SortByOffset(SubSeq(s, 1, Len(s) - 1)), s[Len(s)])

InsertByPointer(sorted, x) ==
    LET k == Cardinality({i \in 1..Len(sorted) :
                            sorted[i].PointerToRawData <= x.PointerToRawData})
    IN  SubSeq(sorted, 1, k) \o <<x>> \o SubSeq(sorted, k + 1, Len(sorted))

\* line 426: sorted(pe.sections, key=lambda s: s.PointerToRawData)
RECURSIVE SortByPointer(_)
SortByPointer(s) ==
    IF s = <<>> THEN <<>>
    ELSE InsertByPointer(SortByPointer(SubSeq(s, 1, Len(s) - 1)), s[Len(s)])

\* lines 426-441: a node per section with raw data. The pointer of a section
\* is a multiple of the file alignment, where get_PointerToRawData_adj
\* returns it as it is.
SectionLayouts(image, base) ==
    LET secs == SelectSeq(SortByPointer(image.sections),
                          LAMBDA s : s.SizeOfRawData # 0)
    IN  [i \in 1..Len(secs) |->
            Layout(Range(base + secs[i].PointerToRawData, secs[i].SizeOfRawData),
                   "section", <<>>)]

\* a slip: the header segment starts at 0 whatever the base offset is
HeaderSegment_zero(children, base) ==
    Layout(Range(0, children[1].range.offset), "PE header", <<>>)

\* lines 444-449
HeaderSegment(children, base) ==
    Layout(Range(base + 0, children[1].range.offset - (base + 0)),
           "PE header", <<>>)

\* a slip: the overlay is left out
OverlaySegments_none(children, image, base) == <<>>

\* lines 453-462: the overlay, when the last child ends before the data does
OverlaySegments(children, image, base) ==
    LET last_section == children[Len(children)]
    IN  IF RangeEnd(last_section.range) < base + image.len
        THEN <<Layout(Range(base + RangeEnd(last_section.range),
                            image.len - RangeEnd(last_section.range)),
                      "PE overlay", <<>>)>>
        ELSE <<>>

\* lines 467-477: the gap segments for the children at indices 2..n
RECURSIVE GapSegments(_, _, _)
GapSegments(children, n, base) ==
    IF n <= 1 THEN <<>>
    ELSE LET prior == children[n - 1]
             region == children[n]
         IN  GapSegments(children, n - 1, base) \o
             (IF RangeEnd(prior.range) # region.range.offset
              THEN <<Layout(Range(base + RangeEnd(prior.range),
                                  region.range.offset - RangeEnd(prior.range)),
                            "gap", <<>>)>>
              ELSE <<>>)

\* lines 443-479: header, overlay and gaps around the section nodes, sorted
Segmented(sections, image, base) ==
    LET with_header == <<HeaderSegment(sections, base)>> \o sections
        with_overlay == with_header \o OverlaySegments(with_header, image, base)
        with_gaps == with_overlay \o GapSegments(with_overlay, Len(with_overlay), base)
    IN  SortByOffset(with_gaps)

\* lines 483-514: the leaf resources whose bytes can be read, in walk order
ResourceLayouts(image, base) ==
    LET readable == SelectSeq(image.resources, LAMBDA r : r.kind # "unreadable")
    IN  [i \in 1..Len(readable) |->
            [range |-> Range(base + readable[i].OffsetToData, readable[i].Size),
             name |-> "rsrc",
             children |-> <<>>,
             kind |-> readable[i].kind,
             child |-> readable[i].child]]

\* line 527: index of the first child whose range holds the offset, 0 if none
ContainerOf(children, resource) ==
    LET hits == {i \in 1..Len(children) :
                    /\ children[i].range.offset <= resource.range.offset
                    /\ resource.range.offset < RangeEnd(children[i].range)}
    IN  IF hits = {} THEN 0
        ELSE CHOOSE i \in hits : \A j \in hits : i <= j

\* lines 526-530: the first n resources attached to their containers; the
\* result is <<>> when next() finds no container for one of them
RECURSIVE AttachResources(_, _, _)
AttachResources(children, resources, n) ==
    IF n = 0 THEN [raised |-> "none", children |-> children]
    ELSE LET before == AttachResources(children, resources, n - 1)
             c == ContainerOf(before.children, resources[n])
         IN  IF before.raised # "none" THEN before
             ELSE IF c = 0 THEN [raised |-> "StopIteration", children |-> <<>>]
             ELSE [raised |-> "none",
                   children |->
                     [before.children EXCEPT ![c].children =
                        SortByOffset(Append(@, resources[n]))]]

\* compute_pe_layout(pe, pe_offset): what was raised, and the tree returned
RECURSIVE compute_pe_layout(_, _)

\* lines 519-524: the nested layouts of the first n resources
RECURSIVE NestResources(_, _)
NestResources(resources, n) ==
    IF n = 0 THEN [raised |-> "none", resources |-> <<>>]
    ELSE LET before == NestResources(resources, n - 1)
             r == resources[n]
             node == Layout(r.range, r.name, <<>>)
         IN  IF before.raised # "none" THEN before
             ELSE IF r.kind = "data"
             THEN [raised |-> "none", resources |-> Append(before.resources, node)]
             ELSE IF r.kind = "bad_mz"
             THEN [raised |-> "PEFormatError", resources |-> <<>>]
             ELSE LET nested == compute_pe_layout(r.child, r.range.offset)
                  IN  IF nested.raised # "none"
                      THEN [raised |-> nested.raised, resources |-> <<>>]
                      ELSE [raised |-> "none",
                            resources |->
                              Append(before.resources,
                                     Layout(r.range, r.name, <<nested.layout>>))]

compute_pe_layout(image, base) ==
    LET sections == SectionLayouts(image, base)
        root(children) == Layout(Range(0, image.len), "pe", children)
    IN  IF sections = <<>>
        THEN [raised |-> "IndexError", layout |-> <<>>]
        ELSE LET children == Segmented(sections, image, base)
                 resources == SortByOffset(ResourceLayouts(image, base))
                 nested == NestResources(resources, Len(resources))
                 attached == AttachResources(children, nested.resources,
                                             Len(nested.resources))
             IN  IF ~image.has_resources
                 THEN [raised |-> "none", layout |-> root(children)]
                 ELSE IF nested.raised # "none"
                 THEN [raised |-> nested.raised, layout |-> <<>>]
                 ELSE IF attached.raised # "none"
                 THEN [raised |-> attached.raised, layout |-> <<>>]
                 ELSE [raised |-> "none", layout |-> root(attached.children)]

\* The section tables the parser hands over: any order, any pointers, sizes
\* 0 (skipped at line 427, so one pointer stands for all), 1 and 2.
SectionHeaders ==
    {[PointerToRawData |-> p, SizeOfRawData |-> s] :
        p \in 0..(MaxLen - 1), s \in 1..2}
    \cup {[PointerToRawData |-> 0, SizeOfRawData |-> 0]}

SectionTables(n) == UNION {[1..k -> SectionHeaders] : k \in 0..n}

NoImage == [sections |-> <<>>, len |-> 0, has_resources |-> FALSE, resources |-> <<>>]

\* an image without a resource directory
PlainImages ==
    {[sections |-> st, len |-> l, has_resources |-> FALSE, resources |-> <<>>] :
        st \in SectionTables(MaxSections), l \in 1..MaxLen}

\* the images embedded in a resource: three bytes with one section
EmbeddedImages ==
    {[sections |-> <<[PointerToRawData |-> p, SizeOfRawData |-> 1]>>,
      len |-> 3, has_resources |-> FALSE, resources |-> <<>>] : p \in 0..1}

\* a leaf of the resource directory: plain data, bytes that cannot be read,
\* bytes with the MZ magic that do not parse, an embedded image
Resources ==
    {[OffsetToData |-> o, Size |-> 1, kind |-> k, child |-> NoImage] :
        o \in 0..(MaxLen - 1), k \in {"data", "unreadable"}}
    \cup {[OffsetToData |-> o, Size |-> 3, kind |-> "bad_mz", child |-> NoImage] :
        o \in 0..(MaxLen - 1)}
    \cup {[OffsetToData |-> o, Size |-> 3, kind |-> "mz", child |-> c] :
        o \in 0..(MaxLen - 1), c \in EmbeddedImages}

\* an image with a resource directory of one leaf
ResourceImages ==
    {[sections |-> st, len |-> l, has_resources |-> TRUE, resources |-> <<r>>] :
        st \in SectionTables(MaxSections - 1), l \in 1..MaxLen, r \in Resources}

\* line 641 calls compute_pe_layout(pe, 0); line 523 calls it for an embedded
\* image with the offset of its resource, which is the call with a base
\* offset other than 0.
InitLayout ==
    /\ \/ pe \in PlainImages /\ pe_offset \in 0..MaxBase
       \/ pe \in ResourceImages /\ pe_offset = 0
    /\ layout = <<>>
    /\ pc = "layout"
    /\ static_strings = <<>> /\ min_length = 0 /\ address = -1 /\ prev_strings = <<>>
    /\ tagged_strings = <<>> /\ tagged_before = <<>> /\ tagged_corpus = <<>>
    /\ cursor = 0 /\ tag_order = <<>>
    /\ ExtractIdle
    /\ BlobIdle
    /\ TagIdle
    /\ FixIdle

\* lines 418-532
ComputePeLayout ==
    /\ pc = "layout"
    /\ layout' = compute_pe_layout(pe, pe_offset)
    /\ pc' = "laid out"
    /\ UNCHANGED <<pe, pe_offset>>
    /\ UNCHANGED splitVars
    /\ UNCHANGED <<tagged_strings, tagged_before, tagged_corpus, cursor, tag_order>>
    /\ UNCHANGED extractVars
    /\ UNCHANGED blobVars
    /\ UNCHANGED tagVars
    /\ UNCHANGED fixVars

NextLayout == ComputePeLayout

SpecLayout == InitLayout /\ [][NextLayout]_vars

(***************************************************************************)
(* Claims about compute_pe_layout (SpecLayout).                            *)
(***************************************************************************)
\* the file offsets of a range
Bytes(r) == {b \in 0..(3 * MaxLen + 3) : r.offset <= b /\ b < r.offset + r.length}

\* the sections of an image that have raw data
NonEmpty(image) ==
    {i \in 1..Len(image.sections) : image.sections[i].SizeOfRawData # 0}

SectionBytes(s) ==
    {b \in 0..(2 * MaxLen) :
        s.PointerToRawData <= b /\ b < s.PointerToRawData + s.SizeOfRawData}

\* the non-empty sections are pairwise non-overlapping
NonOverlapping(image) ==
    \A i, j \in NonEmpty(image) :
        i # j => SectionBytes(image.sections[i]) \cap SectionBytes(image.sections[j]) = {}

\* ... and lie inside the file
InsideFile(image) ==
    \A i \in NonEmpty(image) :
        image.sections[i].PointerToRawData + image.sections[i].SizeOfRawData <= image.len

Returned == pc = "laid out" /\ layout.raised = "none"

\* C8: for a top-level image (base offset 0) whose non-empty sections are
\* pairwise non-overlapping and inside the file, the ranges of the children
\* of the returned root together are exactly the root's range [0, len).
C8_RootCovered ==
    (Returned /\ pe_offset = 0 /\ NonOverlapping(pe) /\ InsideFile(pe)) =>
      /\ layout.layout.range = [offset |-> 0, length |-> pe.len]
      /\ UNION {Bytes(layout.layout.children[i].range) :
                    i \in 1..Len(layout.layout.children)} = 0..(pe.len - 1)

\* header, section, gap, section and overlay under one root
C8_Witness ==
    /\ Returned /\ pe_offset = 0 /\ NonOverlapping(pe) /\ InsideFile(pe)
    /\ Len(layout.layout.children) = 5
    /\ \A i \in 1..5 : layout.layout.children[i].range.length > 0
    /\ {layout.layout.children[i].name : i \in 1..5}
          = {"PE header", "section", "gap", "PE overlay"}

\* the children of a node are in ascending offset order and each ends where
\* or before the next begins, and no segment among them has a negative length
SiblingsOrdered(node) ==
    /\ \A i \in 1..(Len(node.children) - 1) :
          /\ node.children[i].range.offset <= node.children[i + 1].range.offset
          /\ node.children[i].range.offset + node.children[i].range.length
                <= node.children[i + 1].range.offset
    /\ \A i \in 1..Len(node.children) :
          node.children[i].name \in {"PE header", "gap", "PE overlay"}
            => node.children[i].range.length >= 0

RECURSIVE TreeOrdered(_)
TreeOrdered(node) ==
    /\ SiblingsOrdered(node)
    /\ \A i \in 1..Len(node.children) : TreeOrdered(node.children[i])

\* the image and the images embedded in its resources have non-overlapping sections
AllNonOverlapping(image) ==
    /\ NonOverlapping(image)
    /\ \A i \in 1..Len(image.resources) :
          image.resources[i].kind = "mz" => NonOverlapping(image.resources[i].child)

\* C9: in every layout built from non-overlapping sections the children of
\* every node are sorted by ascending offset and pairwise disjoint
\* (c1.range.end <= c2.range.offset for consecutive siblings) and every
\* synthetic segment has a non-negative length.
C9_SiblingsDisjointOrdered ==
    (Returned /\ AllNonOverlapping(pe)) => TreeOrdered(layout.layout)

\* the same for the top-level image alone (base offset 0, no embedded image)
C9_TopLevelOrdered ==
    (Returned /\ pe_offset = 0 /\ NonOverlapping(pe))
      => SiblingsOrdered(layout.layout)

(***************************************************************************)
(* Direct extraction: extract_ascii_strings, extract_unicode_strings and   *)
(* the merge in main, floss/qs/main.py                                     *)
(***************************************************************************)
\* bounds of the extractors' inputs
MaxBuf == 7        \* len(buf) is drawn from 0..MaxBuf
MaxN == 3          \* n is drawn from 1..MaxN

\* line 33
MIN_STR_LEN == 6

\* the byte values the buffers are made of: NUL, tab, "A" and a byte above 0x7e
ByteValues == {0, 9, 65, 200}

\* line 46: the character class holds 0x20..0x7e and the tab
ASCII_BYTE == (32..126) \cup {9}

\* lines 49-50 and 94-99, 111-115: the repeat count of the pattern used for
\* n, which is the precompiled one when n is the default
RepeatCount(n) == IF n = MIN_STR_LEN THEN 6 ELSE n

\* [ASCII_BYTE]{k,} is greedy: the bytes of the class from offset i on
RECURSIVE AsciiRun(_, _)
AsciiRun(b, i) ==
    IF i < Len(b) /\ b[i + 1] \in ASCII_BYTE THEN 1 + AsciiRun(b, i + 1) ELSE 0

\* (?:[ASCII_BYTE]\x00){k,} is greedy: the pairs of a byte of the class and
\* a NUL from offset i on
RECURSIVE WideRun(_, _)
WideRun(b, i) ==
    IF i + 1 < Len(b) /\ b[i + 1] \in ASCII_BYTE /\ b[i + 2] = 0
    THEN 1 + WideRun(b, i + 2) ELSE 0

\* a slip: a lazy repeat {k,}? stops after k bytes
AsciiMatch_lazy(b, i, k) == IF AsciiRun(b, i) >= k THEN k ELSE -1

\* the length of the pattern's match at offset i, -1 when it does not match
AsciiMatch(b, i, k) == IF AsciiRun(b, i) >= k THEN AsciiRun(b, i) ELSE -1

WideMatch(b, i, k) == IF WideRun(b, i) >= k THEN 2 * WideRun(b, i) ELSE -1

\* re.finditer: the leftmost match, then on from where it ended (k >= 1, so
\* no match is empty); without a match at i the scan moves on one byte
RECURSIVE AsciiFindIter(_, _, _)
AsciiFindIter(b, i, k) ==
    IF i >= Len(b) THEN <<>>
    ELSE IF AsciiMatch(b, i, k) < 0 THEN AsciiFindIter(b, i + 1, k)
    ELSE <<Range(i, AsciiMatch(b, i, k))>>
            \o AsciiFindIter(b, i + AsciiMatch(b, i, k), k)

RECURSIVE WideFindIter(_, _, _)
WideFindIter(b, i, k) ==
    IF i >= Len(b) THEN <<>>
    ELSE IF WideMatch(b, i, k) < 0 THEN WideFindIter(b, i + 1, k)
    ELSE <<Range(i, WideMatch(b, i, k))>>
            \o WideFindIter(b, i + WideMatch(b, i, k), k)

\* match.group(): the bytes of a range
Group(b, r) == SubSeq(b, r.offset + 1, r.offset + r.length)

\* bytes.decode("ascii"): the code point of a byte below 0x80 is the byte
DecodeAscii(bytes) == [j \in 1..Len(bytes) |-> bytes[j]]

\* bytes.decode("utf-16") of bytes without a byte order mark: little-endian
\* code units, none of them a surrogate here (the high byte is 0)
DecodeUtf16(bytes) ==
    [j \in 1..(Len(bytes) \div 2) |-> bytes[2 * j - 1] + 256 * bytes[2 * j]]

\* lines 71-75
ExtractedString(string, range, encoding) ==
    [string |-> string, range |-> range, encoding |-> encoding]

\* lines 88-103
extract_ascii_strings(b, n) ==
    IF b = <<>> THEN <<>>
    ELSE LET matches == AsciiFindIter(b, 0, RepeatCount(n))
         IN  [j \in 1..Len(matches) |->
                ExtractedString(DecodeAscii(Group(b, matches[j])), matches[j], "ascii")]

\* lines 106-122
extract_unicode_strings(b, n) ==
    IF b = <<>> THEN <<>>
    ELSE LET matches == WideFindIter(b, 0, RepeatCount(n))
         IN  [j \in 1..Len(matches) |->
                ExtractedString(DecodeUtf16(Group(b, matches[j])), matches[j], "unicode")]

Buffers == UNION {[1..l -> ByteValues] : l \in 0..MaxBuf}

\* main passes the default n; the extractors take any n
InitExtract ==
    /\ buf \in Buffers
    /\ extract_n \in 1..MaxN
    /\ strings = <<>>
    /\ pc = "extract"
    /\ tagged_strings = <<>> /\ tagged_before = <<>> /\ tagged_corpus = <<>>
    /\ cursor = 0 /\ tag_order = <<>>
    /\ SplitIdle
    /\ LayoutIdle
    /\ BlobIdle
    /\ TagIdle
    /\ FixIdle

\* lines 624-629: both scans chained, ASCII first, and sorted by offset
ExtractStrings ==
    /\ pc = "extract"
    /\ strings' = SortByOffset(extract_ascii_strings(buf, extract_n)
                                  \o extract_unicode_strings(buf, extract_n))
    /\ pc' = "extracted"
    /\ UNCHANGED <<buf, extract_n>>
    /\ UNCHANGED <<tagged_strings, tagged_before, tagged_corpus, cursor, tag_order>>
    /\ UNCHANGED splitVars
    /\ UNCHANGED layoutVars
    /\ UNCHANGED blobVars
    /\ UNCHANGED tagVars
    /\ UNCHANGED fixVars

NextExtract == ExtractStrings

SpecExtract == InitExtract /\ [][NextExtract]_vars

(***************************************************************************)
(* Claims about direct extraction (SpecExtract).                           *)
(***************************************************************************)
\* the byte at the 1-based position p exists and is printable ASCII or a tab
InAlphabet(p) ==
    /\ p \in 1..Len(buf)
    /\ (buf[p] = 9 \/ (32 <= buf[p] /\ buf[p] <= 126))

AsciiStrings == {i \in 1..Len(strings) : strings[i].encoding = "ascii"}

\* C10: every ASCII string returned is a maximal run of at least n bytes of
\* the printable-ASCII-plus-tab alphabet and its range is exactly the bytes
\* of that run; no two ASCII ranges overlap; the merged ASCII and UTF-16LE
\* results are sorted by ascending start offset; an empty buffer yields no
\* strings.
C10_DirectExtraction ==
    pc = "extracted" =>
      /\ \A i \in AsciiStrings :
            LET first == strings[i].range.offset + 1
                last == strings[i].range.offset + strings[i].range.length
            IN  /\ strings[i].range.length >= extract_n
                /\ \A p \in first..last : InAlphabet(p)
                /\ ~InAlphabet(first - 1)
                /\ ~InAlphabet(last + 1)
                /\ strings[i].string = SubSeq(buf, first, last)
      /\ \A i, j \in AsciiStrings :
            i # j =>
              \/ strings[i].range.offset + strings[i].range.length
                    <= strings[j].range.offset
              \/ strings[j].range.offset + strings[j].range.length
                    <= strings[i].range.offset
      /\ \A i \in 1..(Len(strings) - 1) :
            strings[i].range.offset <= strings[i + 1].range.offset
      /\ (buf = <<>> => strings = <<>>)

\* two ASCII runs of at least n >= 2 bytes and a UTF-16LE string that starts
\* between them
C10_Witness ==
    /\ pc = "extracted"
    /\ extract_n >= 2
    /\ Cardinality(AsciiStrings) >= 2
    /\ \E i \in 2..(Len(strings) - 1) :
          /\ strings[i].encoding = "unicode"
          /\ strings[i - 1].encoding = "ascii"
          /\ strings[i + 1].encoding = "ascii"

(***************************************************************************)
(* Blob-mode extraction: get_string_blob_strings, extract_rust_strings and *)
(* main, floss/language/rust/extract.py                                    *)
(***************************************************************************)
\* what a call came to: the exception that left it, and the value returned
Outcome(raised, value) == [raised |-> raised, value |-> value]

\* lines 150, 156: the machine types of the two branches, and one other
Machines ==
    {"IMAGE_FILE_MACHINE_I386", "IMAGE_FILE_MACHINE_AMD64", "IMAGE_FILE_MACHINE_ARM64"}

\* The images handed over. The data section, when there is one, starts at
\* file offset 0 and holds MaxOff bytes; utf8_strings is what lines 142-146
\* make of its bytes (the scanner is a library, so its result is an input).
RustImages ==
    {[has_rdata |-> h, Machine |-> m, ImageBase |-> 16, VirtualAddress |-> 8,
      PointerToRawData |-> 0, SizeOfRawData |-> MaxOff, utf8_strings |-> ss] :
        h \in BOOLEAN, m \in Machines, ss \in ScannerLists}

\* the virtual addresses the reference finders may yield: those of the data
\* section, one below and one above
XrefAddresses(image) ==
    {image.ImageBase + image.VirtualAddress - image.PointerToRawData + a :
        a \in (-1)..(MaxOff + 1)}

\* line 165
FileAddress(image, addr) ==
    addr - image.ImageBase - image.VirtualAddress + image.PointerToRawData

\* lines 135-136, 167
InRdata(image, a) ==
    image.PointerToRawData <= a /\ a < image.PointerToRawData + image.SizeOfRawData

\* sorted(..., key=lambda s: s.offset), stable
InsertByStringOffset(sorted, x) ==
    LET k == Cardinality({i \in 1..Len(sorted) : sorted[i].offset <= x.offset})
    IN  SubSeq(sorted, 1, k) \o <<x>> \o SubSeq(sorted, k + 1, Len(sorted))

RECURSIVE SortByStringOffset(_)
SortByStringOffset(s) ==
    IF s = <<>> THEN <<>>
    ELSE InsertByStringOffset(SortByStringOffset(SubSeq(s, 1, Len(s) - 1)), s[Len(s)])

InitBlob ==
    /\ rust_pe \in RustImages
    /\ min_length \in 1..MaxMinLen
    /\ static_strings = <<>>
    /\ prev_strings = <<>>
    /\ address = -1
    /\ rust_strings = <<>>
    /\ pc = "get_string_blob_strings"
    /\ tagged_strings = <<>> /\ tagged_before = <<>> /\ tagged_corpus = <<>>
    /\ cursor = 0 /\ tag_order = <<>>
    /\ LayoutIdle
    /\ ExtractIdle
    /\ TagIdle
    /\ FixIdle

\* lines 126-162: up to the loop over the references
FindCandidates ==
    /\ pc = "get_string_blob_strings"
    /\ IF ~rust_pe.has_rdata
       THEN \* lines 129-133
            /\ rust_strings' = Outcome("none", <<>>)
            /\ pc' = "returned"
            /\ UNCHANGED static_strings
       ELSE IF rust_pe.Machine \notin
                 {"IMAGE_FILE_MACHINE_I386", "IMAGE_FILE_MACHINE_AMD64"}
       THEN \* lines 160-162
            /\ rust_strings' = Outcome("none", <<>>)
            /\ pc' = "returned"
            /\ static_strings' = rust_pe.utf8_strings
       ELSE /\ static_strings' = rust_pe.utf8_strings
            /\ pc' = "xrefs"
            /\ UNCHANGED rust_strings
    /\ UNCHANGED <<min_length, address, prev_strings, rust_pe>>
    /\ UNCHANGED <<tagged_strings, tagged_before, tagged_corpus, cursor, tag_order>>
    /\ UNCHANGED layoutVars
    /\ UNCHANGED extractVars
    /\ UNCHANGED tagVars
    /\ UNCHANGED fixVars

\* lines 164-170: one reference
NextXref ==
    /\ pc = "xrefs"
    /\ \E addr \in XrefAddresses(rust_pe) :
          /\ address' = FileAddress(rust_pe, addr)
          /\ prev_strings' = static_strings
          /\ static_strings' =
                IF InRdata(rust_pe, FileAddress(rust_pe, addr))
                THEN split_strings(static_strings, FileAddress(rust_pe, addr), min_length)
                ELSE static_strings
    /\ UNCHANGED <<min_length, rust_pe, rust_strings>>
    /\ UNCHANGED mainVars
    /\ UNCHANGED layoutVars
    /\ UNCHANGED extractVars
    /\ UNCHANGED tagVars
    /\ UNCHANGED fixVars

\* line 172 and lines 120-123: the list is returned as it stands
ReturnStrings ==
    /\ pc = "xrefs"
    /\ rust_strings' = Outcome("none", static_strings)
    /\ pc' = "returned"
    /\ UNCHANGED <<rust_pe>>
    /\ UNCHANGED splitVars
    /\ UNCHANGED <<tagged_strings, tagged_before, tagged_corpus, cursor, tag_order>>
    /\ UNCHANGED layoutVars
    /\ UNCHANGED extractVars
    /\ UNCHANGED tagVars
    /\ UNCHANGED fixVars

\* line 190: the command line sorts what extract_rust_strings returned
MainSort ==
    /\ pc = "returned"
    /\ rust_strings' = Outcome(rust_strings.raised, SortByStringOffset(rust_strings.value))
    /\ pc' = "sorted"
    /\ UNCHANGED <<rust_pe>>
    /\ UNCHANGED splitVars
    /\ UNCHANGED <<tagged_strings, tagged_before, tagged_corpus, cursor, tag_order>>
    /\ UNCHANGED layoutVars
    /\ UNCHANGED extractVars
    /\ UNCHANGED tagVars
    /\ UNCHANGED fixVars

NextBlob == FindCandidates \/ NextXref \/ ReturnStrings \/ MainSort

SpecBlob == InitBlob /\ [][NextBlob]_vars

(***************************************************************************)
(* Claims about blob-mode extraction (SpecBlob).                           *)
(***************************************************************************)
Ascending(ss) == \A i \in 1..(Len(ss) - 1) : ss[i].offset <= ss[i + 1].offset

\* C11: the list get_string_blob_strings / extract_rust_strings returns
\* after all splits is in ascending file-offset order.
C11_ReturnedAscending ==
    pc = "returned" => Ascending(rust_strings.value)

\* only the list the command line has sorted is ascending
C11_SortedAscending ==
    pc = "sorted" => Ascending(rust_strings.value)

(***************************************************************************)
(* Tagging loop of main with its sources: floss/qs/main.py lines 706-749   *)
(***************************************************************************)
\* bound of the loop's input
MaxTagged == 2     \* strings in the list the loop goes through

\* the texts of the strings
Keys == {"kernel32.dll", "KERNEL32.DLL", "CreateFileA", "createfilea"}

\* str.lower() on these texts
Lower(s) ==
    CASE s = "KERNEL32.DLL" -> "kernel32.dll"
      [] s = "CreateFileA" -> "createfilea"
      [] OTHER -> s

\* `value in s` for the texts and the rule values used here
IsSubstring(value, s) ==
    \/ value = s
    \/ value = "32" /\ s \in {"kernel32.dll", "KERNEL32.DLL"}

\* lines 62-63: Range.__contains__(int)
ContainsInt(r, x) == r.offset <= x /\ x < RangeEnd(r)

\* lines 64-65: Range.__contains__(Range)
ContainsRange(r, other) ==
    ContainsInt(r, other.offset) /\ ContainsInt(r, RangeEnd(other))

\* lines 715-720
check_is_code(code_offsets, string) ==
    IF \E addr \in string.range.offset..(RangeEnd(string.range) - 1) :
            addr \in code_offsets
    THEN {"#code"} ELSE {}

\* Optional[Range]: None is the empty tuple, a range r the tuple <<r>>
None == <<>>
Some(r) == <<r>>

\* lines 308-315
check_is_reloc(reloc, string) ==
    IF reloc = None THEN {}
    ELSE IF ContainsRange(reloc[1], string.range) THEN {"#reloc"}
    ELSE {}

\* lines 318-322
query_global_prevalence_database(db, string) ==
    IF string \in db THEN {"#common"} ELSE {}

\* lines 325-329
query_global_prevalence_hash_database(db, string) ==
    IF string \in db THEN {"#common"} ELSE {}

\* lines 332-341: db.metadata_by_string is given by the texts it has a
\* record for
query_library_string_databases(dbs, string) ==
    {LibraryTag(library_databases[i]) :
        i \in {j \in 1..Len(library_databases) : string \in dbs[library_databases[j]]}}

\* expert.py lines 34-52: ExpertStringDatabase.query
ExpertQuery(db, s) ==
    {rule.tag : rule \in {x \in db : x.type = "string" /\ x.value = s}}
    \cup {rule.tag : rule \in {x \in db : x.type = "substring" /\ IsSubstring(x.value, s)}}
    \cup {rule.tag : rule \in {x \in db : x.type = "regex" /\ s \in x.matches}}

\* lines 344-345
query_expert_string_database(db, string) == ExpertQuery(db, string)

\* a slip: the API names are compared ignoring case as well
query_winapi_name_database_nocase(db, string) ==
    IF Lower(string) \in db.dll_names THEN {"#winapi"}
    ELSE IF Lower(string) \in {Lower(x) : x \in db.api_names} THEN {"#winapi"}
    ELSE {}

\* lines 348-355
query_winapi_name_database(db, string) ==
    IF Lower(string) \in db.dll_names THEN {"#winapi"}
    ELSE IF string \in db.api_names THEN {"#winapi"}
    ELSE {}

\* a slip: a tag that is already there is taken away
TagsUpdate_toggle(tags, new) == (tags \ new) \cup (new \ tags)

\* set.update
TagsUpdate(tags, new) == tags \cup new

\* line 740: the structures that overlap [r.offset, r.end), by begin
OverlappingStructures(structures, r) ==
    SelectSeq(structures,
              LAMBDA st : st.range.offset < RangeEnd(r) /\ RangeEnd(st.range) > r.offset)

\* lines 729-737: the tags the sources give one string
SourceTags(src, string) ==
    check_is_code(src.code_offsets, string)
    \cup check_is_reloc(src.reloc_range, string)
    \cup query_global_prevalence_database(src.global_prevalence_database, string.string)
    \cup query_global_prevalence_hash_database(src.global_prevalence_hash_database_xaa, string.string)
    \cup query_global_prevalence_hash_database(src.global_prevalence_hash_database_yaa, string.string)
    \cup query_library_string_databases(src.library_strings, string.string)
    \cup query_expert_string_database(src.capa_expert_database, string.string)
    \cup query_winapi_name_database(src.winapi_database, string.string)

\* lines 726-749: one iteration of the loop
TagOne(src, ts) ==
    [string |-> ts.string,
     tags |-> TagsUpdate(ts.tags, SourceTags(src, ts.string)),
     structure |->
        IF OverlappingStructures(src.structures, ts.string.range) = <<>>
        THEN ts.structure
        ELSE OverlappingStructures(src.structures, ts.string.range)[1].name]

\* lines 726-749: the loop
TagAll(src, tss) == [i \in 1..Len(tss) |-> TagOne(src, tss[i])]

\* line 706: TaggedString(s, set())
NewTaggedString(s) == [string |-> s, tags |-> {}, structure |-> ""]

\* the ranges of the strings, and the lists main hands to the loop: sorted
\* by offset (lines 624-629), here with one string per offset
StringRanges == {Range(0, 1), Range(0, 2), Range(1, 1), Range(1, 2), Range(2, 1)}

SampleStrings == {ExtractedString(k, r, "ascii") : k \in Keys, r \in StringRanges}

StringLists ==
    {ss \in UNION {[1..n -> SampleStrings] : n \in 0..MaxTagged} :
        \A i \in 1..(Len(ss) - 1) : ss[i].range.offset < ss[i + 1].range.offset}

\* line 664: no image, or the file range of the relocation directory
RelocRanges ==
    {None, Some(Range(0, 1)), Some(Range(0, 2)), Some(Range(1, 1)), Some(Range(1, 2))}

\* db/winapi.py: the DLL names are held in lower case, the API names as
\* they are exported
WinapiDatabases ==
    {[dll_names |-> d, api_names |-> a] :
        d \in SUBSET {"kernel32.dll"}, a \in SUBSET {"CreateFileA"}}

NoLibraryStrings == [db \in SeqRange(library_databases) |-> {}]

\* the prevalence, library and expert databases: all empty, or one kind of
\* them with records
OtherDatabases ==
    {[gp |-> {}, xaa |-> {}, yaa |-> {}, library |-> NoLibraryStrings, expert |-> {}],
     [gp |-> {"kernel32.dll"}, xaa |-> {"CreateFileA"}, yaa |-> {"CreateFileA"},
      library |-> NoLibraryStrings, expert |-> {}],
     [gp |-> {}, xaa |-> {}, yaa |-> {},
      library |-> [db \in SeqRange(library_databases) |->
                      IF db = "curl.jsonl.gz" THEN {} ELSE {"createfilea"}],
      expert |-> {}],
     [gp |-> {}, xaa |-> {}, yaa |-> {}, library |-> NoLibraryStrings,
      expert |-> {[type |-> "string", value |-> "CreateFileA", tag |-> "#capa", matches |-> {}],
                  [type |-> "substring", value |-> "32", tag |-> "#capa", matches |-> {}],
                  [type |-> "regex", value |-> "(?i)createfile", tag |-> "#capa",
                   matches |-> {"CreateFileA", "createfilea"}]}]}

\* lines 541-569: what compute_file_structures found
StructureLists ==
    {<<>>,
     <<[range |-> Range(0, 1), name |-> "section header"]>>,
     <<[range |-> Range(0, 2), name |-> "section header"],
       [range |-> Range(1, 2), name |-> "import table"]>>}

TagSources ==
    {[code_offsets |-> c, reloc_range |-> r,
      global_prevalence_database |-> o.gp,
      global_prevalence_hash_database_xaa |-> o.xaa,
      global_prevalence_hash_database_yaa |-> o.yaa,
      library_strings |-> o.library,
      capa_expert_database |-> o.expert,
      winapi_database |-> w,
      structures |-> s] :
        c \in {{}, {1}}, r \in RelocRanges, o \in OtherDatabases,
        w \in WinapiDatabases, s \in StructureLists}

InitTag ==
    /\ tag_sources \in TagSources
    /\ \E ss \in StringLists :
          tagged_strings = [i \in 1..Len(ss) |-> NewTaggedString(ss[i])]
    /\ tagged_before = tagged_strings
    /\ tagged_corpus = <<>>
    /\ cursor = 0
    /\ pc = "tag"
    /\ tag_order = <<>>
    /\ SplitIdle
    /\ LayoutIdle
    /\ ExtractIdle
    /\ BlobIdle
    /\ FixIdle

\* lines 726-749, run over the list; a second run goes over the same list
\* with the same sources
RunTaggingPass ==
    /\ pc \in {"tag", "tagged"}
    /\ tagged_before' = tagged_strings
    /\ tagged_strings' = TagAll(tag_sources, tagged_strings)
    /\ pc' = IF pc = "tag" THEN "tagged" ELSE "retagged"
    /\ UNCHANGED <<tagged_corpus, cursor, tag_order>>
    /\ UNCHANGED splitVars
    /\ UNCHANGED layoutVars
    /\ UNCHANGED extractVars
    /\ UNCHANGED blobVars
    /\ UNCHANGED tagVars
    /\ UNCHANGED fixVars

NextTag == RunTaggingPass

SpecTag == InitTag /\ [][NextTag]_vars

(***************************************************************************)
(* Claims about the tagging loop (SpecTag).                                *)
(***************************************************************************)
\* C12: a second run of the tagging pass over the same list with the same
\* databases, code offsets and relocation range leaves every string's tag
\* set and structure label as the first run left them.
C12_TaggingIdempotent ==
    pc = "retagged" => tagged_strings = tagged_before

\* two strings went through both runs, one of them with two tags and a
\* structure label
C12_Witness ==
    /\ pc = "retagged"
    /\ Len(tagged_strings) = 2
    /\ \E i \in 1..2 :
          /\ Cardinality(tagged_strings[i].tags) >= 2
          /\ tagged_strings[i].structure # ""

\* the whole byte range [offset, offset+length) of string i lies inside the
\* relocation directory's file range [r.offset, r.end)
InsideReloc(i) ==
    /\ tag_sources.reloc_range # <<>>
    /\ tag_sources.reloc_range[1].offset <= tagged_strings[i].string.range.offset
    /\ tagged_strings[i].string.range.offset + tagged_strings[i].string.range.length
          <= tag_sources.reloc_range[1].offset + tag_sources.reloc_range[1].length

\* C13: a string is tagged #reloc if and only if its whole byte range lies
\* inside the relocation directory's file range, a string whose end is
\* r.end included; without a relocation range no string gets the tag.
C13_RelocIffInside ==
    pc = "tagged" =>
      \A i \in 1..Len(tagged_strings) :
          ("#reloc" \in tagged_strings[i].tags) <=> InsideReloc(i)

\* what the loop does: the end of the string has to be below r.end
C13_RelocIffEndBelow ==
    pc = "tagged" =>
      \A i \in 1..Len(tagged_strings) :
          ("#reloc" \in tagged_strings[i].tags) <=>
            /\ InsideReloc(i)
            /\ tagged_strings[i].string.range.offset + tagged_strings[i].string.range.length
                  # tag_sources.reloc_range[1].offset + tag_sources.reloc_range[1].length

\* the text of string i, letter case ignored, is one of the DLL names
MatchesDllName(i) ==
    \E d \in tag_sources.winapi_database.dll_names :
        Lower(d) = Lower(tagged_strings[i].string.string)

\* the text of string i is one of the API names, letter for letter
EqualsApiName(i) ==
    tagged_strings[i].string.string \in tag_sources.winapi_database.api_names

\* no source has anything for string i
MatchesNothing(i) ==
    /\ ~MatchesDllName(i) /\ ~EqualsApiName(i)
    /\ tag_sources.code_offsets = {}
    /\ tag_sources.reloc_range = <<>>
    /\ tag_sources.global_prevalence_database = {}
    /\ tag_sources.global_prevalence_hash_database_xaa = {}
    /\ tag_sources.global_prevalence_hash_database_yaa = {}
    /\ \A db \in DOMAIN tag_sources.library_strings : tag_sources.library_strings[db] = {}
    /\ tag_sources.capa_expert_database = {}
    /\ tag_sources.structures = <<>>

\* C14: a string gets #winapi if and only if it matches a DLL name ignoring
\* letter case or equals an API name exactly; one that differs from every
\* API name only by case and matches no DLL name is not tagged, and one that
\* matches nothing keeps an empty tag set and an unset structure.
C14_WinapiIffNameHit ==
    pc = "tagged" =>
      \A i \in 1..Len(tagged_strings) :
          /\ ("#winapi" \in tagged_strings[i].tags) <=> (MatchesDllName(i) \/ EqualsApiName(i))
          /\ MatchesNothing(i) =>
                tagged_strings[i].tags = {} /\ tagged_strings[i].structure = ""

\* an upper-case DLL name is tagged, an API name in the wrong case is not
C14_Witness ==
    /\ pc = "tagged"
    /\ Len(tagged_strings) = 2
    /\ tag_sources.winapi_database.api_names = {"CreateFileA"}
    /\ \E i, j \in 1..2 :
          /\ tagged_strings[i].string.string = "KERNEL32.DLL"
          /\ "#winapi" \in tagged_strings[i].tags
          /\ tagged_strings[j].string.string = "createfilea"
          /\ "#winapi" \notin tagged_strings[j].tags

(***************************************************************************)
(* Claims about the early returns of blob-mode extraction (SpecBlob).      *)
(***************************************************************************)
SupportedMachine ==
    rust_pe.Machine \in {"IMAGE_FILE_MACHINE_I386", "IMAGE_FILE_MACHINE_AMD64"}

\* C15: for an image whose machine type is neither 32-bit x86 nor AMD64 no
\* reference address is harvested and the UTF8 candidates of the data
\* section are returned unsplit: the result is the candidate list.
C15_UnsupportedReturnsCandidates ==
    (pc = "returned" /\ rust_pe.has_rdata /\ ~SupportedMachine) =>
        /\ address = -1
        /\ rust_strings.raised = "none"
        /\ rust_strings.value = rust_pe.utf8_strings

\* what a successful extraction that found no string hands its caller
FoundNothing == [raised |-> "none", value |-> <<>>]

\* C16: without a .rdata section the caller gets an error outcome that can be
\* told from a successful extraction that found zero strings.
C16_NoRdataDistinct ==
    (pc = "returned" /\ ~rust_pe.has_rdata) => rust_strings # FoundNothing

\* a supported image with a data section and no candidate comes to FoundNothing
C16_EmptySuccess ==
    (pc = "returned" /\ rust_pe.has_rdata /\ SupportedMachine
        /\ rust_pe.utf8_strings = <<>>) => rust_strings = FoundNothing

(***************************************************************************)
(* Claims about the failures of compute_pe_layout (SpecLayout).            *)
(***************************************************************************)
\* a resource whose bytes begin with the MZ magic and do not parse as an image
MalformedEmbedded ==
    \E i \in 1..Len(pe.resources) : pe.resources[i].kind = "bad_mz"

\* C17: compute_pe_layout never raises because of a malformed embedded
\* image: for a resource whose bytes begin with MZ and do not parse, the
\* recursion is skipped, the resource node is attached without a nested
\* layout and the layout of the outer image is returned.
C17_MalformedEmbeddedSkipped ==
    (pc = "laid out" /\ MalformedEmbedded /\ NonEmpty(pe) # {}) =>
        /\ layout.raised # "PEFormatError"
        /\ layout.raised = "none" =>
              \E i \in 1..Len(layout.layout.children) :
                  \E j \in 1..Len(layout.layout.children[i].children) :
                      /\ layout.layout.children[i].children[j].name = "rsrc"
                      /\ layout.layout.children[i].children[j].children = <<>>

\* C18: an image whose sections all have zero raw size, or that has no
\* section, is handled without raising: the zero-sized sections are skipped
\* and a layout for the image is returned.
C18_NoSectionDataHandled ==
    (pc = "laid out" /\ NonEmpty(pe) = {}) =>
        /\ layout.raised = "none"
        /\ layout.layout.range = [offset |-> 0, length |-> pe.len]

\* a zero-sized section next to one with data is skipped without raising
C18_ZeroSizedSkipped ==
    (pc = "laid out" /\ NonEmpty(pe) # {} /\ ~pe.has_resources) =>
        /\ layout.raised = "none"
        /\ Cardinality({i \in 1..Len(layout.layout.children) :
                            layout.layout.children[i].name = "section"})
              = Cardinality(NonEmpty(pe))

(***************************************************************************)
(* Claims about the disposition of strings without a deciding tag          *)
(* (SpecStyle).                                                            *)
(***************************************************************************)
\* no tag of the set maps to highlight, hide or mute in the rule table
MapsToNoAction(tags) ==
    ~HasRule(tags, "highlight") /\ ~HasRule(tags, "hide") /\ ~HasRule(tags, "mute")

\* C19: a string whose tag set is empty, or whose tags map to none of the
\* actions highlight, hide or mute (tags without an entry in the rule table
\* included), resolves to the default disposition, not to mute.
C19_NoActionIsDefault ==
    \A i \in 1..Len(tagged_strings) :
        MapsToNoAction(tagged_strings[i].tags) =>
            compute_string_style(tagged_strings[i]) = "DEFAULT_STYLE"

\* C19 as the code has it: only the empty tag set resolves to default; a tag
\* without an entry in the rule table counts as mute, so a non-empty tag set
\* without a highlight or hide tag resolves to mute.
C19_UnknownTagIsMute ==
    \A i \in 1..Len(tagged_strings) :
      LET tags == tagged_strings[i].tags
          style == compute_string_style(tagged_strings[i])
      IN  /\ (style = "DEFAULT_STYLE") <=> (tags = {})
          /\ (tags # {} /\ ~HasRule(tags, "highlight") /\ ~HasRule(tags, "hide"))
                => style = "MUTED_STYLE"

\* all the tags of the string are without a rule, and it is muted
C19_Witness ==
    /\ Len(tag_order) = 2
    /\ \A tag \in tagged_strings[1].tags : tag \notin DOMAIN tag_rules
    /\ Cardinality(tagged_strings[1].tags) = 2
    /\ compute_string_style(tagged_strings[1]) = "MUTED_STYLE"

(***************************************************************************)
(* split_strings on any list: the candidates may overlap, repeat and come  *)
(* in any order (SpecSplitAny).                                            *)
(***************************************************************************)
AnyLists ==
    {ss \in UNION {[1..n -> Candidates] : n \in 0..MaxStrings} :
        \A i \in 1..Len(ss) : StrEnd(ss[i]) <= MaxOff}

InitSplitAny ==
    /\ static_strings \in AnyLists
    /\ min_length \in 1..MaxMinLen
    /\ address = -1
    /\ prev_strings = static_strings
    /\ MainIdle
    /\ LayoutIdle
    /\ ExtractIdle
    /\ BlobIdle
    /\ TagIdle
    /\ FixIdle

\* one call of split_strings
SplitStringsOnce == address = -1 /\ SplitStrings

NextSplitAny == SplitStringsOnce

SpecSplitAny == InitSplitAny /\ [][NextSplitAny]_vars

\* the first candidate in list order that strictly contains the address
FirstHit == CHOOSE i \in Hit : \A j \in Hit : i <= j

\* C20: one call of split_strings for one address replaces at most one
\* candidate: when several candidates strictly contain the address only the
\* first in list order is split, the others stay as they are, and the
\* length of the list changes by -1, 0 or +1.
C20_AtMostOneSplit ==
    Called =>
      /\ Len(static_strings) - Len(prev_strings) \in {-1, 0, 1}
      /\ Hit = {} => static_strings = prev_strings
      /\ Hit # {} =>
            /\ SubSeq(static_strings, 1, Len(prev_strings) - 1) = Others(FirstHit)
            /\ \A k \in Len(prev_strings)..Len(static_strings) :
                  static_strings[k] \in {PrefixOf(prev_strings[FirstHit]),
                                         SuffixOf(prev_strings[FirstHit])}

\* two different candidates strictly contain the address: the first was
\* split in two, the second is still there
C20_Witness ==
    /\ Called
    /\ Len(prev_strings) = 2
    /\ Hit = {1, 2}
    /\ prev_strings[1] # prev_strings[2]
    /\ Len(static_strings) = 3
    /\ static_strings[1] = prev_strings[2]

(***************************************************************************)
(* Misclassification repair: fix_b2s_wide_strings,                         *)
(* floss/language/rust/extract.py lines 28-60                              *)
(***************************************************************************)
\* bound of the repair's input
MaxRuns == 2       \* runs the scanner handed over

\* the code units of the texts: "A", and U+4100, whose low byte is zero
CodeUnits == {65, 16640}

Texts == UNION {[1..l -> CodeUnits] : l \in 1..2}

\* str.encode("utf-16le"): low byte, then high byte, of every code unit
EncodeUtf16le(s) ==
    [k \in 1..(2 * Len(s)) |->
        IF k % 2 = 1 THEN s[(k + 1) \div 2] % 256 ELSE s[k \div 2] \div 256]

\* `a in b` for texts
TextIn(a, b) == \E k \in 0..(Len(b) - Len(a)) : SubSeq(b, k + 1, k + Len(a)) = a

\* a slip: the scan is repeated when the first byte is not zero
NeedsRescan_nonzero(s) == EncodeUtf16le(s)[1] # 0

\* lines 42-44
NeedsRescan(s) == EncodeUtf16le(s)[1] = 0

\* a tuple (text, type, (start, end)) of the scanner; the k-th run starts at
\* byte 4 * (k - 1)
B2sString(s, type, start) ==
    [string |-> s, type |-> type, start |-> start, end |-> start + 2 * Len(s)]

B2sLists ==
    UNION {{[k \in 1..n |-> B2sString(ss[k], ty[k], 4 * (k - 1))] :
                ss \in [1..n -> Texts], ty \in [1..n -> {"WIDE_STRING", "UTF8"}]} :
            n \in 0..MaxRuns}

InitFix ==
    /\ \E strs \in B2sLists :
          b2s_fix = [strings |-> strs, i |-> 0, last_fixup |-> <<>>,
                     fixed_strings |-> <<>>, rescanned |-> {}]
    /\ min_length \in 1..MaxMinLen
    /\ static_strings = <<>> /\ address = -1 /\ prev_strings = <<>>
    /\ pc = "fix_b2s_wide_strings"
    /\ tagged_strings = <<>> /\ tagged_before = <<>> /\ tagged_corpus = <<>>
    /\ cursor = 0 /\ tag_order = <<>>
    /\ LayoutIdle
    /\ ExtractIdle
    /\ BlobIdle
    /\ TagIdle

\* lines 36-59: one iteration of the loop. What b2s.extract_string finds in
\* buffer[start + 1 :] is any text, at the start of the slice.
FixString ==
    /\ pc = "fix_b2s_wide_strings"
    /\ b2s_fix.i < Len(b2s_fix.strings)
    /\ LET string == b2s_fix.strings[b2s_fix.i + 1]
       IN  IF string.type = "WIDE_STRING"
           THEN IF NeedsRescan(string.string)
                THEN \E new_string \in Texts :
                        b2s_fix' =
                          [b2s_fix EXCEPT
                            !.i = @ + 1,
                            !.rescanned = @ \cup {string.start + 1},
                            !.last_fixup =
                                IF Len(new_string) < min_length THEN <<>>
                                ELSE <<[string |-> new_string, type |-> "UTF8",
                                        start |-> 0 + string.start + 1,
                                        end |-> Len(new_string) + string.start + 1]>>]
                ELSE b2s_fix' = [b2s_fix EXCEPT !.i = @ + 1]
           ELSE b2s_fix' =
                  [b2s_fix EXCEPT
                    !.i = @ + 1,
                    !.fixed_strings =
                        IF b2s_fix.last_fixup # <<>>
                           /\ TextIn(string.string, b2s_fix.last_fixup[1].string)
                        THEN Append(@, b2s_fix.last_fixup[1])
                        ELSE Append(@, string),
                    !.last_fixup = <<>>]
    /\ UNCHANGED pc
    /\ UNCHANGED splitVars
    /\ UNCHANGED <<tagged_strings, tagged_before, tagged_corpus, cursor, tag_order>>
    /\ UNCHANGED layoutVars
    /\ UNCHANGED extractVars
    /\ UNCHANGED blobVars
    /\ UNCHANGED tagVars

\* line 60
ReturnFixed ==
    /\ pc = "fix_b2s_wide_strings"
    /\ b2s_fix.i = Len(b2s_fix.strings)
    /\ pc' = "fixed"
    /\ UNCHANGED fixVars
    /\ UNCHANGED splitVars
    /\ UNCHANGED <<tagged_strings, tagged_before, tagged_corpus, cursor, tag_order>>
    /\ UNCHANGED layoutVars
    /\ UNCHANGED extractVars
    /\ UNCHANGED blobVars
    /\ UNCHANGED tagVars

NextFix == FixString \/ ReturnFixed

SpecFix == InitFix /\ [][NextFix]_vars

(***************************************************************************)
(* Claims about fix_b2s_wide_strings (SpecFix).                            *)
(***************************************************************************)
\* the low byte of the first UTF-16LE code unit of run k
FirstByte(k) == b2s_fix.strings[k].string[1] % 256

\* the scanner was invoked again one byte past the start of run k
RescannedAt(k) == (b2s_fix.strings[k].start + 1) \in b2s_fix.rescanned

\* C21: for each WIDE_STRING run the scanner is re-invoked one byte past the
\* run's start exactly when the low byte of the run's first UTF-16LE code
\* unit is not zero; a run whose first byte is zero causes no re-scan.
C21_RescanIffFirstByteNonzero ==
    pc = "fixed" =>
      \A k \in 1..Len(b2s_fix.strings) :
          b2s_fix.strings[k].type = "WIDE_STRING" =>
              (RescannedAt(k) <=> FirstByte(k) # 0)

\* C21 as the code has it: the scanner is re-invoked one byte past the
\* run's start exactly when the first byte of a WIDE_STRING run is zero, and
\* never for a run of another type.
C21_RescanIffFirstByteZero ==
    pc = "fixed" =>
      /\ \A k \in 1..Len(b2s_fix.strings) :
            RescannedAt(k) <=>
              (b2s_fix.strings[k].type = "WIDE_STRING" /\ FirstByte(k) = 0)
      /\ Cardinality(b2s_fix.rescanned) <= Len(b2s_fix.strings)

\* one wide run that starts with a zero byte and one that does not
C21_Witness ==
    /\ pc = "fixed"
    /\ Len(b2s_fix.strings) = 2
    /\ \A k \in 1..2 : b2s_fix.strings[k].type = "WIDE_STRING"
    /\ FirstByte(1) # 0 /\ ~RescannedAt(1)
    /\ FirstByte(2) = 0 /\ RescannedAt(2)

(***************************************************************************)
(* Further claims about the suppression pass (SpecMain).                   *)
(***************************************************************************)
\* C22: for each library database loaded and queried during tagging (the
\* open-source databases and the runtime database msvc_v143), a tag of that
\* database carried by between 1 and 4 strings is removed by the
\* suppression pass.
C22_EveryLibraryDatabaseCovered ==
    pc = "hide" =>
      \A k \in 1..Len(library_databases) :
          Cardinality(Carriers(tagged_before, LibraryTag(library_databases[k]))) \in 1..4
            => Carriers(tagged_strings, LibraryTag(library_databases[k])) = {}

\* the tag of the runtime database is never taken from a string
C22_RuntimeTagUntouched ==
    pc = "hide" =>
      Carriers(tagged_strings, LibraryTag("msvc_v143.jsonl.gz"))
        = Carriers(tagged_before, LibraryTag("msvc_v143.jsonl.gz"))

(***************************************************************************)
(* Order of the splits in get_string_blob_strings (SpecBlob).              *)
(***************************************************************************)
\* the reference handled last was inside the data section, so split_strings ran
Applied(a) == a # -1 /\ InRdata(rust_pe, a)

\* C23: the splits are applied in ascending order of reference address: a
\* split is never followed by the split for a smaller address.
C23_SplitsAscending ==
    [][(pc = "xrefs" /\ pc' = "xrefs" /\ Applied(address) /\ Applied(address'))
          => address <= address']_vars

(***************************************************************************)
(* compute_pe_layout at a base offset other than 0 (SpecLayout).           *)
(***************************************************************************)
\* the bytes the children of a node cover
ChildBytes(node) ==
    UNION {Bytes(node.children[i].range) : i \in 1..Len(node.children)}

\* C24: for an image laid out at a base offset b > 0 every node is placed in
\* the outer file's coordinates: the header segment covers [b, first section
\* start), the gaps and the overlay fill exactly what the sections leave of
\* [b, b + len), and every child range lies inside the root's range.
C24_NestedInOuterCoordinates ==
    (Returned /\ pe_offset > 0 /\ NonOverlapping(pe) /\ InsideFile(pe)) =>
      /\ layout.layout.children[1].name = "PE header"
      /\ layout.layout.children[1].range.offset = pe_offset
      /\ RangeEnd(layout.layout.children[1].range)
            = layout.layout.children[2].range.offset
      /\ SiblingsOrdered(layout.layout)
      /\ ChildBytes(layout.layout) = pe_offset..(pe_offset + pe.len - 1)
      /\ ChildBytes(layout.layout) \subseteq Bytes(layout.layout.range)

\* what does hold at a base offset b > 0: the header segment
C24_HeaderInOuterCoordinates ==
    (Returned /\ pe_offset > 0 /\ NonOverlapping(pe) /\ InsideFile(pe)) =>
      \E i \in 1..Len(layout.layout.children) :
          /\ layout.layout.children[i].name = "PE header"
          /\ layout.layout.children[i].range.offset = pe_offset
          /\ \E j \in 1..Len(layout.layout.children) :
                /\ layout.layout.children[j].name = "section"
                /\ RangeEnd(layout.layout.children[i].range)
                      = layout.layout.children[j].range.offset

(***************************************************************************)
(* Algebra of split_strings over disjoint candidates (SpecSplit).          *)
(***************************************************************************)
\* the (offset, text) strings of a list
Strings(ss) == {ss[i] : i \in 1..Len(ss)}

\* the list after the splits for a and then for b
SplitTwice(ss, a, b) == split_strings(split_strings(ss, a, min_length), b, min_length)

\* C25: over pairwise disjoint candidates the set of strings left by the
\* splits does not depend on the order of the addresses (the split just made
\* and any other address give the same set in either order), and applying
\* the address of a split again, at once or after another split, changes
\* nothing.
C25_SplitCommutesIdempotent ==
    Called =>
      /\ split_strings(static_strings, address, min_length) = static_strings
      /\ \A b \in Addresses :
            /\ Strings(split_strings(static_strings, b, min_length))
                  = Strings(SplitTwice(prev_strings, b, address))
            /\ SplitTwice(static_strings, b, address)
                  = split_strings(static_strings, b, min_length)

\* the split just made cut a candidate, and another address cuts one of the
\* two fragments it left
C25_Witness ==
    /\ Called /\ Hit # {}
    /\ Len(static_strings) = Len(prev_strings) + 1
    /\ \E b \in Addresses :
          /\ b # address
          /\ split_strings(prev_strings, b, min_length) # prev_strings
          /\ Len(split_strings(static_strings, b, min_length)) = Len(static_strings) + 1

(***************************************************************************)
(* Invariant of the refiner over the loop of get_string_blob_strings       *)
(* (SpecBlob): rust_pe.utf8_strings is the initial list.                   *)
(***************************************************************************)
\* every initial candidate meets min_length (the initial ranges are disjoint
\* as the scanner hands them over)
InitialMeetMinLength ==
    \A i \in 1..Len(rust_pe.utf8_strings) :
        Len(rust_pe.utf8_strings[i].string) >= min_length

\* s is cut from the initial candidate c: its range lies inside the range
\* of c and its text is that slice of the text of c
SliceOf(s, c) ==
    /\ c.offset <= s.offset
    /\ StrEnd(s) <= StrEnd(c)
    /\ s.string = SubSeq(c.string, s.offset - c.offset + 1, StrEnd(s) - c.offset)

PairwiseDisjoint(ss) ==
    \A i, j \in 1..Len(ss) :
        i # j => (StrEnd(ss[i]) <= ss[j].offset \/ StrEnd(ss[j]) <= ss[i].offset)

\* C26: when every initial candidate has length >= min_length and the
\* initial ranges are pairwise disjoint, then after any sequence of
\* split_strings calls every string of the list has length >= min_length,
\* is a slice of one initial candidate, and the ranges of the list are
\* pairwise disjoint.
C26_RefinerInvariant ==
    (pc = "xrefs" /\ InitialMeetMinLength /\ PairwiseDisjoint(rust_pe.utf8_strings)) =>
      /\ \A i \in 1..Len(static_strings) :
            /\ Len(static_strings[i].string) >= min_length
            /\ \E k \in 1..Len(rust_pe.utf8_strings) :
                  SliceOf(static_strings[i], rust_pe.utf8_strings[k])
      /\ PairwiseDisjoint(static_strings)

\* a candidate has been cut twice: two of its fragments are in the list, one
\* of them touching neither end of the candidate
C26_Witness ==
    /\ pc = "xrefs" /\ InitialMeetMinLength /\ Applied(address)
    /\ static_strings # prev_strings
    /\ \E k \in 1..Len(rust_pe.utf8_strings) :
          \E i, j \in 1..Len(static_strings) :
              /\ i # j
              /\ SliceOf(static_strings[i], rust_pe.utf8_strings[k])
              /\ SliceOf(static_strings[j], rust_pe.utf8_strings[k])
              /\ rust_pe.utf8_strings[k].offset < static_strings[i].offset
              /\ StrEnd(static_strings[i]) < StrEnd(rust_pe.utf8_strings[k])

(***************************************************************************)
(* Frame of the suppression pass (SpecMain). The id of a string of the     *)
(* model stands for its text, range and structure label, which lines       *)
(* 756-774 never assign.                                                   *)
(***************************************************************************)
\* the tags string i lost in the pass
Removed(i) == tagged_before[i].tags \ tagged_strings[i].tags

\* C27: the suppression pass adds no tag, adds or removes no string and
\* keeps the order of the list; a tag it removes is a library tag that 1 to 4
\* strings carried, so every other tag stays where it was.
C27_SuppressionFrame ==
    pc = "hide" =>
      /\ Len(tagged_strings) = Len(tagged_before)
      /\ \A i \in 1..Len(tagged_before) :
            /\ tagged_strings[i].id = tagged_before[i].id
            /\ tagged_strings[i].tags \subseteq tagged_before[i].tags
            /\ \A tag \in Removed(i) :
                  /\ tag \in LibraryTags
                  /\ Cardinality(Carriers(tagged_before, tag)) \in 1..4

\* the pass took a library tag from a string that keeps its other tags,
\* next to a string it left alone
C27_Witness ==
    /\ pc = "hide"
    /\ \E i, j \in 1..Len(tagged_before) :
          /\ Removed(i) = {"#zlib"}
          /\ {"#code", "#capa"} \subseteq tagged_strings[i].tags
          /\ tagged_before[j].tags # {}
          /\ Removed(j) = {}

(***************************************************************************)
(* Rendering the strings the hide filter leaves (SpecMain).                *)
(***************************************************************************)
\* lines 174-177: what render_string_string raises, "none" when it returns
render_string_string(s) ==
    IF compute_string_style(s) = "None"
    THEN "ValueError: string should be hidden"
    ELSE "none"

\* lines 186-211: what render_string_tags raises, "none" when it returns
render_string_tags(s) ==
    LET tags == IF Cardinality(s.tags) # 1 /\ "#common" \in s.tags
                THEN s.tags \ {"#common"}
                ELSE s.tags
    IN  IF \E tag \in tags : RuleGetMute(tag) \notin {"highlight", "mute", "default"}
        THEN "ValueError: unknown tag rule"
        ELSE "none"

\* C28: every string that survives the hide filter renders without error:
\* compute_string_style gives it a style, so render_string_string does not
\* raise, and none of its tags maps to "hide", so render_string_tags does
\* not raise either.
C28_SurvivorsRender ==
    pc = "render" =>
      \A i \in 1..Len(tagged_strings) :
          /\ compute_string_style(tagged_strings[i]) # "None"
          /\ render_string_string(tagged_strings[i]) = "none"
          /\ \A tag \in tagged_strings[i].tags : RuleGetMute(tag) # "hide"
          /\ render_string_tags(tagged_strings[i]) = "none"

\* the filter hid a string, and a highlighted string, a muted string with a
\* tag that has no rule and an untagged string survive it
C28_Witness ==
    /\ pc = "render"
    /\ Len(tagged_strings) < Len(tagged_before)
    /\ \E i, j, k \in 1..Len(tagged_strings) :
          /\ compute_string_style(tagged_strings[i]) = "HIGHLIGHT_STYLE"
          /\ "#msvc" \in tagged_strings[j].tags
          /\ compute_string_style(tagged_strings[j]) = "MUTED_STYLE"
          /\ tagged_strings[k].tags = {}

====
